---- MODULE Spec2Model ----
(***************************************************************************)
(* TaskFlow single-page client (src/app.js): the authenticated HTTP        *)
(* wrapper, the wire/client normalisation, the derived task view and the   *)
(* task/category operations of the tasks page, with the HTTP API as the    *)
(* environment.                                                            *)
(***************************************************************************)
EXTENDS Integers, Sequences, FiniteSets, TLC

VARIABLES
    storage,     \* localStorage: tf_token and tf_user
    route,       \* the view shown by the router: "login", "register", "tasks"
    hash,        \* window.location.hash; the router follows it when it changes
    tasks,       \* TasksPage: tasks.value
    categories,  \* TasksPage: categories.value
    filter,      \* TasksPage: filter.value (the active view filter)
    priorityF,   \* TasksPage: priorityF.value
    sortBy,      \* TasksPage: sortBy.value
    searchQ,     \* TasksPage: searchQ.value
    taskDlg,     \* TasksPage: taskDlg {show, isEdit, editId}
    taskForm,    \* TasksPage: taskForm
    catDlg,      \* TasksPage: catDlg.show
    catForm,     \* TasksPage: catForm {name, color}
    flags,       \* TasksPage: pageLoading and saving
    load,        \* the Promise.all of loadData: what has settled so far
    msgBox,      \* the open ElMessageBox.confirm, if any
    net,         \* requests sent by request() whose response is not yet consumed
    issued,      \* number of requests sent so far (names them, and bounds the run)
    server,      \* the backend's tasks and categories (the environment)
    last,        \* history: the call of request() that returned in the step just taken,
                 \* or what the user did in it
    now,         \* the clock: hours since day 1, 00:00 UTC
    tz,          \* the browser's time zone: local time = UTC + tz hours
    engine,      \* which sort algorithm the JavaScript engine runs
    conv         \* the conversion under test: wire task, client task, payload

vars == << storage, route, hash, tasks, categories, filter, priorityF, sortBy, searchQ,
           taskDlg, taskForm, catDlg, catForm, flags, load, msgBox, net, issued,
           server, last, now, tz, engine, conv >>

(***************************************************************************)
(* JavaScript values.  A value carries its type, so that null, undefined,  *)
(* numbers and strings can sit in the same field.  A string is either      *)
(* atomic (an id, an enum word) or a text, a sequence of characters, for   *)
(* the fields the code trims, lower-cases or searches; '' is the empty     *)
(* text.  A 'YYYY-MM-DD' string is named by its day number, a timestamp    *)
(* string by its second.                                                   *)
(***************************************************************************)
Undefined == [t |-> "undefined"]
Null      == [t |-> "null"]
NaN       == [t |-> "NaN"]
Num(n)    == [t |-> "number", v |-> n]
Str(s)    == [t |-> "string", v |-> s]
Text(cs)  == [t |-> "text", v |-> cs]
Date(d)   == [t |-> "date", v |-> d]
Stamp(k)  == [t |-> "stamp", v |-> k]
EmptyStr  == Text(<< >>)

\* JavaScript truthiness: what `x || d` and `x ? a : b` test.
Truthy(x) ==
    CASE x.t \in {"undefined", "null", "NaN"} -> FALSE
      [] x.t = "number" -> x.v # 0
      [] x.t = "text"   -> x.v # << >>
      [] OTHER          -> TRUE

\* x || d
Or(x, d) == IF Truthy(x) THEN x ELSE d

\* o.f, undefined when o has no such property
Get(o, f) == IF f \in DOMAIN o THEN o[f] ELSE Undefined

Numerals == << "1", "2", "3", "4", "5", "6", "7", "8", "9" >>

\* String(x): a number becomes its decimal numeral, a string is itself.
String(x) ==
    CASE x.t = "number" -> IF x.v = 0 THEN Str("0") ELSE Str(Numerals[x.v])
      [] x.t = "undefined" -> Str("undefined")
      [] x.t = "null" -> Str("null")
      [] OTHER -> x

\* parseInt(s): the number a decimal numeral denotes, NaN for anything else.
parseInt(x) ==
    IF x.t = "string" /\ \E n \in 1..Len(Numerals) : Numerals[n] = x.v
    THEN Num(CHOOSE n \in 1..Len(Numerals) : Numerals[n] = x.v)
    ELSE IF x = Str("0") THEN Num(0) ELSE NaN

\* new Date(x).getTime(): epoch milliseconds of a timestamp string; new Date(null)
\* is the epoch, new Date(undefined) is an invalid date.
DateGetTime(x) ==
    CASE x.t = "stamp"  -> Num(x.v * 1000)
      [] x.t = "number" -> x
      [] x.t = "null"   -> Num(0)
      [] OTHER          -> NaN

\* String.prototype.trim on a text
RECURSIVE TrimLeft(_)
TrimLeft(cs) == IF cs # << >> /\ Head(cs) = " " THEN TrimLeft(Tail(cs)) ELSE cs

RECURSIVE TrimRight(_)
TrimRight(cs) ==
    IF cs # << >> /\ cs[Len(cs)] = " " THEN TrimRight(SubSeq(cs, 1, Len(cs) - 1)) ELSE cs

Trim(x) == IF x.t = "text" THEN Text(TrimRight(TrimLeft(x.v))) ELSE x

\* String.prototype.toLowerCase, on the alphabet of the model
LowerChar(c) == CASE c = "A" -> "a" [] c = "B" -> "b" [] OTHER -> c

ToLowerCase(x) ==
    IF x.t = "text" THEN Text([i \in 1..Len(x.v) |-> LowerChar(x.v[i])]) ELSE x

\* s.includes(q) on texts
Includes(s, q) ==
    \E i \in 0..(Len(s.v) - Len(q.v)) : SubSeq(s.v, i + 1, i + Len(q.v)) = q.v

(***************************************************************************)
(* Wire <-> client conversion                                              *)
(***************************************************************************)
\* Faulty variants of the conversions, for testing what the properties detect:
\* one forgets the status default, one sends the title as typed.
normalizeTaskNoStatusDefault(t) ==
    [ id        |-> String(Get(t, "id")),
      title     |-> Get(t, "title"),
      desc      |-> Or(Get(t, "desc"), EmptyStr),
      category  |-> IF Truthy(Get(t, "category_id"))
                    THEN String(Get(t, "category_id")) ELSE EmptyStr,
      priority  |-> Or(Get(t, "priority"), Str("medium")),
      status    |-> Get(t, "status"),
      due       |-> Or(Get(t, "due_date"), EmptyStr),
      createdAt |-> DateGetTime(Get(t, "created_at")) ]

taskToPayloadUntrimmed(form) ==
    [ title       |-> form.title,
      desc        |-> Or(form.desc, EmptyStr),
      category_id |-> IF Truthy(form.category) THEN parseInt(form.category) ELSE Null,
      priority    |-> form.priority,
      status      |-> form.status,
      due_date    |-> Or(form.due, Null) ]

normalizeTask(t) ==
    [ id        |-> String(Get(t, "id")),
      title     |-> Get(t, "title"),
      desc      |-> Or(Get(t, "desc"), EmptyStr),
      category  |-> IF Truthy(Get(t, "category_id"))
                    THEN String(Get(t, "category_id")) ELSE EmptyStr,
      priority  |-> Or(Get(t, "priority"), Str("medium")),
      status    |-> Or(Get(t, "status"), Str("pending")),
      due       |-> Or(Get(t, "due_date"), EmptyStr),
      createdAt |-> DateGetTime(Get(t, "created_at")) ]

normalizeCat(c) == [ id |-> String(c.id), name |-> c.name, color |-> c.color ]

taskToPayload(form) ==
    [ title       |-> Trim(form.title),
      desc        |-> Or(form.desc, EmptyStr),
      category_id |-> IF Truthy(form.category) THEN parseInt(form.category) ELSE Null,
      priority    |-> form.priority,
      status      |-> form.status,
      due_date    |-> Or(form.due, Null) ]

\* tasksRes.map(normalizeTask), catsRes.map(normalizeCat)
NormalizeTasks(list) == [i \in 1..Len(list) |-> normalizeTask(list[i])]

NormalizeCats(list) == [i \in 1..Len(list) |-> normalizeCat(list[i])]

(***************************************************************************)
(* Date helpers                                                            *)
(***************************************************************************)
\* The date part of toISOString(): the UTC calendar day of the clock.
IsoDate(clock) == Date((clock \div 24) + 1)

today == IsoDate(now)

\* a < b on strings, for the date strings and '' the code compares
StrLess(a, b) ==
    CASE a.t = "date" /\ b.t = "date" -> a.v < b.v
      [] a.t = "text" /\ b.t = "date" -> a.v = << >>
      [] OTHER -> FALSE

isOverdue(s) == Truthy(s) /\ StrLess(s, today)

isToday(s) == s = today

(***************************************************************************)
(* Aggregate counts (navItems, statsCards)                                 *)
(***************************************************************************)
totalCount == Len(tasks)

todayCount == Cardinality({i \in 1..Len(tasks) : isToday(tasks[i].due)})

pendingCount == Cardinality({i \in 1..Len(tasks) : tasks[i].status = Str("pending")})

doneCount == Cardinality({i \in 1..Len(tasks) : tasks[i].status = Str("done")})

overdueCount ==
    Cardinality({i \in 1..Len(tasks) :
                    tasks[i].status = Str("pending") /\ isOverdue(tasks[i].due)})

(***************************************************************************)
(* The derived view (visibleTasks)                                         *)
(***************************************************************************)
\* The view-filter step: which tasks the active filter keeps.
ViewKeeps(t) ==
    CASE filter = Str("today")   -> isToday(t.due)
      [] filter = Str("pending") -> t.status = Str("pending")
      [] filter = Str("done")    -> t.status = Str("done")
      [] filter # Str("all")     -> t.category = filter
      [] OTHER                   -> TRUE

PriorityKeeps(t) == priorityF # Str("all") => t.priority = priorityF

\* Faulty variant: the search looks at the title only.
SearchKeepsTitleOnly(t) ==
    Truthy(searchQ) => Includes(ToLowerCase(t.title), ToLowerCase(searchQ))

SearchKeeps(t) ==
    Truthy(searchQ) =>
        LET q == ToLowerCase(searchQ)
        IN  Includes(ToLowerCase(t.title), q) \/ Includes(ToLowerCase(t.desc), q)

Filtered ==
    SelectSeq(SelectSeq(SelectSeq(tasks, ViewKeeps), PriorityKeeps), SearchKeeps)

Sign(n) == IF n < 0 THEN 0 - 1 ELSE IF n > 0 THEN 1 ELSE 0

\* a.localeCompare(b) on two date strings
LocaleCompare(a, b) == Sign(a.v - b.v)

PriorityRank(p) == CASE p = Str("high") -> 0 [] p = Str("medium") -> 1 [] p = Str("low") -> 2

\* Faulty variant: the due sorts compare the strings only, '' before any date.
CompareDueStrings(a, b) ==
    CASE sortBy = Str("created_desc") -> b.createdAt.v - a.createdAt.v
      [] sortBy = Str("created_asc")  -> a.createdAt.v - b.createdAt.v
      [] sortBy \in {Str("due_asc"), Str("due_desc")} ->
            LET x == IF sortBy = Str("due_asc") THEN a.due ELSE b.due
                y == IF sortBy = Str("due_asc") THEN b.due ELSE a.due
            IN  IF x = y THEN 0
                ELSE IF ~Truthy(x) THEN 0 - 1
                ELSE IF ~Truthy(y) THEN 1
                ELSE LocaleCompare(x, y)
      [] sortBy = Str("priority") -> PriorityRank(a.priority) - PriorityRank(b.priority)
      [] OTHER -> 0

\* The comparator handed to list.sort
Compare(a, b) ==
    CASE sortBy = Str("created_desc") -> b.createdAt.v - a.createdAt.v
      [] sortBy = Str("created_asc")  -> a.createdAt.v - b.createdAt.v
      [] sortBy = Str("due_asc") ->
            IF ~Truthy(a.due) THEN 1
            ELSE IF ~Truthy(b.due) THEN 0 - 1
            ELSE LocaleCompare(a.due, b.due)
      [] sortBy = Str("due_desc") ->
            IF ~Truthy(a.due) THEN 1
            ELSE IF ~Truthy(b.due) THEN 0 - 1
            ELSE LocaleCompare(b.due, a.due)
      [] sortBy = Str("priority") -> PriorityRank(a.priority) - PriorityRank(b.priority)
      [] OTHER -> 0

InsertAt(list, k, x) == SubSeq(list, 1, k) \o << x >> \o SubSeq(list, k + 1, Len(list))

Reverse(list) == [i \in 1..Len(list) |-> list[Len(list) + 1 - i]]

\* Insertion sort scanning from the right: an element moves left past every
\* element the comparator puts after it.
RECURSIVE InsertFromRight(_, _)
InsertFromRight(sorted, item) ==
    IF sorted = << >> THEN << item >>
    ELSE LET swap == sorted[Len(sorted)]
         IN  IF Compare(swap, item) <= 0
             THEN Append(sorted, item)
             ELSE Append(InsertFromRight(SubSeq(sorted, 1, Len(sorted) - 1), item), swap)

RECURSIVE InsertionSort(_, _)
InsertionSort(sorted, rest) ==
    IF rest = << >> THEN sorted
    ELSE InsertionSort(InsertFromRight(sorted, Head(rest)), Tail(rest))

\* Binary insertion: the place of pivot in sorted, between left and right (0-based).
RECURSIVE BinaryPlace(_, _, _, _)
BinaryPlace(sorted, pivot, left, right) ==
    IF left >= right THEN left
    ELSE LET mid == left + ((right - left) \div 2)
         IN  IF Compare(pivot, sorted[mid + 1]) < 0
             THEN BinaryPlace(sorted, pivot, left, mid)
             ELSE BinaryPlace(sorted, pivot, mid + 1, right)

RECURSIVE BinaryInsertionSort(_, _)
BinaryInsertionSort(sorted, rest) ==
    IF rest = << >> THEN sorted
    ELSE BinaryInsertionSort(
             InsertAt(sorted, BinaryPlace(sorted, Head(rest), 0, Len(sorted)), Head(rest)),
             Tail(rest))

\* The length of the run the list starts with: ascending, or strictly descending.
RECURSIVE RunLength(_, _, _)
RunLength(list, k, descending) ==
    IF k >= Len(list) THEN k
    ELSE LET order == Compare(list[k + 1], list[k])
         IN  IF (descending /\ order >= 0) \/ (~descending /\ order < 0)
             THEN k
             ELSE RunLength(list, k + 1, descending)

\* A run-detecting binary insertion sort: the first run is taken as it stands
\* (reversed when descending) and the rest inserted into it.
RunSort(list) ==
    IF Len(list) < 2 THEN list
    ELSE LET descending == Compare(list[2], list[1]) < 0
             n   == RunLength(list, 2, descending)
             run == SubSeq(list, 1, n)
         IN  BinaryInsertionSort(IF descending THEN Reverse(run) ELSE run,
                                 SubSeq(list, n + 1, Len(list)))

\* list.sort(comparator), as the engine in use runs it
SortList(list) ==
    IF engine = "run-binary" THEN RunSort(list) ELSE InsertionSort(<< >>, list)

visibleTasks == SortList(Filtered)

(***************************************************************************)
(* Bounds                                                                  *)
(***************************************************************************)
\* Requests a run may send.  Mounting the tasks page sends two.
MaxRequests == 3

(***************************************************************************)
(* The backend (the environment): its data and its answers                 *)
(***************************************************************************)
COLORS == << Str("#6366f1"), Str("#8b5cf6") >>

WireTask1 ==
    [ id |-> Num(1), title |-> Text(<< "a" >>), desc |-> Null, category_id |-> Null,
      priority |-> Null, status |-> Null, due_date |-> Null, created_at |-> Stamp(1) ]

WireTask2 ==
    [ id |-> Num(2), title |-> Text(<< "b" >>), desc |-> Text(<< "a" >>),
      category_id |-> Num(1), priority |-> Str("high"), status |-> Str("done"),
      due_date |-> Date(1), created_at |-> Stamp(2) ]

WireCat1 == [ id |-> Num(1), name |-> Text(<< "w" >>), color |-> COLORS[1] ]

Server0 ==
    [ tasks |-> << WireTask1, WireTask2 >>, cats |-> << WireCat1 >>,
      nextTask |-> 3, nextCat |-> 2 ]

NoBody     == [t |-> "empty"]
Json(d)    == [t |-> "json", v |-> d]
NoResp     == [kind |-> "none"]
NetError   == [kind |-> "neterr"]
Http(s, b) == [kind |-> "http", status |-> s, body |-> b]

Message(m) == [message |-> Str(m)]

TaskOps == {"createTask", "updateTask", "toggle", "deleteTask"}
CatOps  == {"createCat", "deleteCat"}
LoadOps == {"getTasks", "getCats"}
AuthOps == {"login", "register"}

\* The position of the wire task with this id (as the path spells it), 0 if none.
SrvIndex(list, arg) ==
    IF \E i \in 1..Len(list) : String(list[i].id) = arg
    THEN CHOOSE i \in 1..Len(list) : String(list[i].id) = arg
    ELSE 0

\* PUT: the stored task with the fields of the body written over it.
SrvMerge(w, body) == [f \in DOMAIN w |-> IF f \in DOMAIN body THEN body[f] ELSE w[f]]

SrvRemove(list, arg) == SelectSeq(list, LAMBDA w : String(w.id) # arg)

SrvNewTask(body) ==
    SrvMerge([ id |-> Num(server.nextTask), title |-> EmptyStr, desc |-> Null,
               category_id |-> Null, priority |-> Null, status |-> Null,
               due_date |-> Null, created_at |-> Stamp(server.nextTask) ], body)

SrvNewCat(body) == [ id |-> Num(server.nextCat), name |-> body.name, color |-> body.color ]

\* Whether the backend can carry the request out.
SrvCan(r) ==
    CASE r.op \in {"updateTask", "toggle", "deleteTask"} -> SrvIndex(server.tasks, r.arg) # 0
      [] r.op = "deleteCat" -> SrvIndex(server.cats, r.arg) # 0
      [] OTHER -> TRUE

\* The JSON the backend answers a request it carries out with.
SrvData(r) ==
    CASE r.op \in AuthOps -> [ token |-> Str("tok"), username |-> r.body.username ]
      [] r.op = "getTasks" -> server.tasks
      [] r.op = "getCats" -> server.cats
      [] r.op = "createTask" -> SrvNewTask(r.body)
      [] r.op \in {"updateTask", "toggle"} ->
            SrvMerge(server.tasks[SrvIndex(server.tasks, r.arg)], r.body)
      [] r.op = "createCat" -> SrvNewCat(r.body)
      [] OTHER -> Message("deleted")

\* The backend's data after it carried the request out.
SrvEffect(r) ==
    CASE r.op = "createTask" ->
            [server EXCEPT !.tasks = Append(@, SrvNewTask(r.body)), !.nextTask = @ + 1]
      [] r.op \in {"updateTask", "toggle"} ->
            [server EXCEPT !.tasks[SrvIndex(server.tasks, r.arg)] = SrvMerge(@, r.body)]
      [] r.op = "deleteTask" -> [server EXCEPT !.tasks = SrvRemove(@, r.arg)]
      [] r.op = "createCat" ->
            [server EXCEPT !.cats = Append(@, SrvNewCat(r.body)), !.nextCat = @ + 1]
      [] r.op = "deleteCat" -> [server EXCEPT !.cats = SrvRemove(@, r.arg)]
      [] OTHER -> server

(***************************************************************************)
(* request(method, path, body)                                             *)
(***************************************************************************)
NoSession == [tf_token |-> Null, tf_user |-> Null]

\* res.ok
ResOk(resp) == resp.status >= 200 /\ resp.status <= 299

\* What the call of request() gives its caller once the response is in:
\* the parsed data, or a thrown error.
RequestResult(resp) ==
    CASE resp.kind = "neterr"  -> [threw |-> TRUE, error |-> "fetch"]
      [] resp.status = 401     -> [threw |-> TRUE, error |-> "expired"]
      [] resp.body.t # "json"  -> [threw |-> TRUE, error |-> "json"]
      [] ~ResOk(resp)          -> [threw |-> TRUE, error |-> "failed"]
      [] OTHER                 -> [threw |-> FALSE, data |-> resp.body.v]

\* Faulty variant: a 401 removes the token and leaves the username.
RequestStorageTokenOnly(resp) ==
    IF resp.kind = "http" /\ resp.status = 401
    THEN [storage EXCEPT !.tf_token = Null] ELSE storage

\* localStorage after the call: both keys removed on a 401.
RequestStorage(resp) ==
    IF resp.kind = "http" /\ resp.status = 401 THEN NoSession ELSE storage

\* The hash after the call: window.location.hash = '/login' on a 401.
RequestHash(resp) ==
    IF resp.kind = "http" /\ resp.status = 401 THEN "login" ELSE hash

(***************************************************************************)
(* The tasks page: its state as setup() leaves it                          *)
(***************************************************************************)
TaskDlg0  == [show |-> FALSE, isEdit |-> FALSE, editId |-> Null]
TaskForm0 ==
    [ title |-> EmptyStr, desc |-> EmptyStr, category |-> EmptyStr,
      priority |-> Str("medium"), due |-> EmptyStr, status |-> Str("pending") ]
CatForm0  == [name |-> EmptyStr, color |-> COLORS[1]]
Flags0    == [pageLoading |-> FALSE, saving |-> FALSE]
Load0     == [state |-> "none", getTasks |-> Null, getCats |-> Null]
NoBox     == [kind |-> "none"]
NoCall    == [id |-> 0]

BuiltinFilters == {Str("all"), Str("today"), Str("pending"), Str("done")}

\* History of a step of the user that the properties look back at: what was done,
\* on what input, and what the step found.
Did(what, input) ==
    [ id |-> 0, did |-> what, input |-> input,
      before |-> [tasks |-> tasks, categories |-> categories, storage |-> storage,
                  route |-> route, issued |-> issued] ]

pageVars == << tasks, categories, filter, priorityF, sortBy, searchQ,
               taskDlg, taskForm, catDlg, catForm, flags, load >>

fixedVars == << now, tz, engine, conv >>

\* A request as request() sends it: the k-th of this step.
Req(k, op, arg, body, live) ==
    [id |-> issued + k, op |-> op, arg |-> arg, body |-> body, live |-> live,
     resp |-> NoResp]

\* The requests of a tasks page that is gone: their continuations still run, on
\* the state of a destroyed component, which is followed no further.
Orphaned(reqs) == {[r EXCEPT !.live = FALSE] : r \in reqs}

\* setup() and onMounted() of TasksPage: fresh state, and loadData() sends its two
\* requests.
Mount(netNow) ==
    /\ issued + 2 <= MaxRequests
    /\ route' = "tasks"
    /\ tasks' = << >>
    /\ categories' = << >>
    /\ filter' = Str("all")
    /\ priorityF' = Str("all")
    /\ sortBy' = Str("created_desc")
    /\ searchQ' = EmptyStr
    /\ taskDlg' = TaskDlg0
    /\ taskForm' = TaskForm0
    /\ catDlg' = FALSE
    /\ catForm' = CatForm0
    /\ flags' = [pageLoading |-> TRUE, saving |-> FALSE]
    /\ load' = [Load0 EXCEPT !.state = "pending"]
    /\ net' = netNow \cup { Req(1, "getTasks", Null, Null, TRUE),
                            Req(2, "getCats", Null, Null, TRUE) }
    /\ issued' = issued + 2

\* The tasks page is destroyed: its state is gone, what it started goes on.
Unmount(netNow) ==
    /\ tasks' = << >>
    /\ categories' = << >>
    /\ filter' = Str("all")
    /\ priorityF' = Str("all")
    /\ sortBy' = Str("created_desc")
    /\ searchQ' = EmptyStr
    /\ taskDlg' = TaskDlg0
    /\ taskForm' = TaskForm0
    /\ catDlg' = FALSE
    /\ catForm' = CatForm0
    /\ flags' = Flags0
    /\ load' = Load0
    /\ net' = Orphaned(netNow)
    /\ issued' = issued

\* A router without the guard: every navigation ends up where it was going.
BeforeEachOpen(to, token) == to

\* router.beforeEach: where a navigation to `to` ends up.
BeforeEach(to, token) == IF to = "tasks" /\ ~Truthy(token) THEN "login" ELSE to

\* A navigation (router.push, or the router following the hash), with the token as
\* stored at that moment.
RouterPush(to, token, netNow) ==
    /\ hash' = BeforeEach(to, token)
    /\ IF BeforeEach(to, token) = "tasks" /\ route # "tasks"
       THEN Mount(netNow)
       ELSE IF BeforeEach(to, token) # "tasks" /\ route = "tasks"
       THEN route' = BeforeEach(to, token) /\ Unmount(netNow)
       ELSE /\ route' = BeforeEach(to, token)
            /\ net' = netNow
            /\ UNCHANGED << pageVars, issued >>

\* The message box when a navigation to `to` is over: it stays open, and what it
\* asks about is a page that may be gone.
BoxAfterPush(to, token) ==
    IF BeforeEach(to, token) # "tasks" /\ msgBox.kind # "none"
    THEN [msgBox EXCEPT !.live = FALSE] ELSE msgBox

\* tasks.value.findIndex(t => t.id === id): 0 stands for -1.
FindIndex(list, id) ==
    IF \E i \in 1..Len(list) : list[i].id = id
    THEN CHOOSE i \in 1..Len(list) : list[i].id = id /\ \A j \in 1..(i - 1) : list[j].id # id
    ELSE 0

\* if (idx !== -1) tasks.value[idx] = x
ReplaceAt(list, idx, x) == IF idx # 0 THEN [list EXCEPT ![idx] = x] ELSE list

(***************************************************************************)
(* Form validation (the rules objects)                                     *)
(***************************************************************************)
Required(x) == x.t = "text" /\ x.v # << >>

MinLen(x, n) == Len(x.v) >= n

LoginValid(form) == Required(form.username) /\ Required(form.password)

RegisterValid(form) ==
    /\ Required(form.username) /\ MinLen(form.username, 2)
    /\ Required(form.password) /\ MinLen(form.password, 6)
    /\ Required(form.confirm) /\ form.confirm = form.password

\* A task form with no rule: every title passes.
TaskValidAlways(form) == TRUE

TaskValid(form) == Required(form.title)

CatValid(form) == Required(form.name)

GoodName  == Text(<< "a", "l" >>)
ShortName == Text(<< "a" >>)
GoodPass  == Text(<< "s", "e", "c", "r", "e", "t" >>)
ShortPass == Text(<< "s" >>)

LoginForms == [username : {EmptyStr, GoodName}, password : {EmptyStr, ShortPass}]

RegisterForms ==
    [username : {ShortName, GoodName}, password : {ShortPass, GoodPass},
     confirm : {ShortPass, GoodPass}]

\* The view items the user picks in the runs of the whole application.
SidebarChoices == {Str("all"), Str("done")}

FormTitles == {Text(<< "c" >>)}

CatNames == {Text(<< "x" >>)}

(***************************************************************************)
(* The user's actions                                                      *)
(***************************************************************************)
\* The page takes clicks: it is shown, the loading mask is off and no modal
\* dialog or message box covers it.
PageClickable ==
    /\ route = "tasks"
    /\ ~flags.pageLoading
    /\ ~taskDlg.show
    /\ ~catDlg
    /\ msgBox.kind = "none"

\* The user goes to a route (a link, a button, the address bar).
Navigate(to) ==
    /\ BeforeEach(to, storage.tf_token) # route
    /\ RouterPush(to, storage.tf_token, net)
    /\ msgBox' = BoxAfterPush(to, storage.tf_token)
    /\ last' = Did("navigate", to)
    /\ UNCHANGED << storage, server, fixedVars >>

\* The router follows a hash that was set behind its back.
HashChange ==
    /\ hash # route
    /\ RouterPush(hash, storage.tf_token, net)
    /\ msgBox' = BoxAfterPush(hash, storage.tf_token)
    /\ last' = Did("navigate", hash)
    /\ UNCHANGED << storage, server, fixedVars >>

\* LoginPage.submit
LoginSubmit(form) ==
    /\ route = "login"
    /\ IF LoginValid(form)
       THEN /\ issued < MaxRequests
            /\ net' = net \cup
                   { Req(1, "login", Null,
                         [username |-> form.username, password |-> form.password], TRUE) }
            /\ issued' = issued + 1
       ELSE UNCHANGED << net, issued >>
    /\ last' = Did("login", form)
    /\ UNCHANGED << storage, route, hash, pageVars, msgBox, server, fixedVars >>

\* RegisterPage.submit
RegisterSubmit(form) ==
    /\ route = "register"
    /\ IF RegisterValid(form)
       THEN /\ issued < MaxRequests
            /\ net' = net \cup
                   { Req(1, "register", Null,
                         [username |-> form.username, password |-> form.password], TRUE) }
            /\ issued' = issued + 1
       ELSE UNCHANGED << net, issued >>
    /\ last' = Did("register", form)
    /\ UNCHANGED << storage, route, hash, pageVars, msgBox, server, fixedVars >>

\* setFilter(f), from a view item or a category item of the sidebar
SetFilter(f) ==
    /\ PageClickable
    /\ f \in BuiltinFilters \cup {categories[i].id : i \in 1..Len(categories)}
    /\ filter' = f
    /\ last' = NoCall
    /\ UNCHANGED << storage, route, hash, tasks, categories, priorityF, sortBy, searchQ,
                    taskDlg, taskForm, catDlg, catForm, flags, load, msgBox, net, issued,
                    server, fixedVars >>

\* toggleTaskApi(id, currentStatus), up to its await
ToggleTaskApi(task) ==
    /\ PageClickable
    /\ issued < MaxRequests
    /\ LET newStatus == IF task.status = Str("done") THEN Str("pending") ELSE Str("done")
       IN  net' = net \cup { Req(1, "toggle", String(task.id), [status |-> newStatus], TRUE) }
    /\ issued' = issued + 1
    /\ last' = NoCall
    /\ UNCHANGED << storage, route, hash, pageVars, msgBox, server, fixedVars >>

\* confirmDeleteTask(id): the confirmation opens
ConfirmDeleteTask(task) ==
    /\ PageClickable
    /\ msgBox' = [kind |-> "deleteTask", id |-> task.id, live |-> TRUE]
    /\ last' = NoCall
    /\ UNCHANGED << storage, route, hash, pageVars, net, issued, server, fixedVars >>

\* logout(): the confirmation opens
Logout ==
    /\ PageClickable
    /\ msgBox' = [kind |-> "logout", id |-> Null, live |-> TRUE]
    /\ last' = NoCall
    /\ UNCHANGED << storage, route, hash, pageVars, net, issued, server, fixedVars >>

\* The user declines the confirmation: .catch(() => {})
MsgBoxCancel ==
    /\ msgBox.kind # "none"
    /\ msgBox' = NoBox
    /\ last' = Did("decline", msgBox)
    /\ UNCHANGED << storage, route, hash, pageVars, net, issued, server, fixedVars >>

\* The user confirms the task delete: the .then of confirmDeleteTask, up to its await
MsgBoxConfirmDelete ==
    /\ msgBox.kind = "deleteTask"
    /\ issued < MaxRequests
    /\ msgBox' = NoBox
    /\ net' = net \cup { Req(1, "deleteTask", String(msgBox.id), Null, msgBox.live) }
    /\ issued' = issued + 1
    /\ last' = NoCall
    /\ UNCHANGED << storage, route, hash, pageVars, server, fixedVars >>

\* The user confirms the logout: the .then of logout
MsgBoxConfirmLogout ==
    /\ msgBox.kind = "logout"
    /\ storage' = NoSession
    /\ RouterPush("login", Null, net)
    /\ msgBox' = NoBox
    /\ last' = NoCall
    /\ UNCHANGED << server, fixedVars >>

\* openTaskDlg(task), from a task's edit button
OpenTaskDlgEdit(task) ==
    /\ PageClickable
    /\ taskDlg' = [show |-> TRUE, isEdit |-> TRUE, editId |-> task.id]
    /\ taskForm' = [ title |-> task.title, desc |-> task.desc, category |-> task.category,
                     priority |-> task.priority, due |-> task.due, status |-> task.status ]
    /\ last' = NoCall
    /\ UNCHANGED << storage, route, hash, tasks, categories, filter, priorityF, sortBy,
                    searchQ, catDlg, catForm, flags, load, msgBox, net, issued, server,
                    fixedVars >>

\* openTaskDlg(null), from the button of the header or from Ctrl/Cmd+N (onKey)
OpenTaskDlgNew ==
    /\ route = "tasks"
    /\ ~taskDlg.show
    /\ taskDlg' = [show |-> TRUE, isEdit |-> FALSE, editId |-> Null]
    /\ LET defaultCat ==
               IF filter \notin BuiltinFilters THEN filter
               ELSE IF Len(categories) > 0 THEN Or(categories[1].id, EmptyStr)
               ELSE EmptyStr
       IN  taskForm' = [TaskForm0 EXCEPT !.category = defaultCat]
    /\ last' = NoCall
    /\ UNCHANGED << storage, route, hash, tasks, categories, filter, priorityF, sortBy,
                    searchQ, catDlg, catForm, flags, load, msgBox, net, issued, server,
                    fixedVars >>

\* The user types a title into the task form.
EditTaskForm(title) ==
    /\ route = "tasks"
    /\ taskDlg.show
    /\ taskForm.title # title
    /\ taskForm' = [taskForm EXCEPT !.title = title]
    /\ last' = NoCall
    /\ UNCHANGED << storage, route, hash, tasks, categories, filter, priorityF, sortBy,
                    searchQ, taskDlg, catDlg, catForm, flags, load, msgBox, net, issued,
                    server, fixedVars >>

\* The cancel button of the task dialog (or its close box): taskDlg.show = false
CloseTaskDlg ==
    /\ route = "tasks"
    /\ taskDlg.show
    /\ taskDlg' = [taskDlg EXCEPT !.show = FALSE]
    /\ last' = NoCall
    /\ UNCHANGED << storage, route, hash, tasks, categories, filter, priorityF, sortBy,
                    searchQ, taskForm, catDlg, catForm, flags, load, msgBox, net, issued,
                    server, fixedVars >>

\* saveTaskApi, up to its await.  The button does not take clicks while saving.
SaveTaskApi ==
    /\ route = "tasks"
    /\ taskDlg.show
    /\ ~flags.saving
    /\ IF TaskValid(taskForm)
       THEN /\ issued < MaxRequests
            /\ flags' = [flags EXCEPT !.saving = TRUE]
            /\ net' = net \cup
                   { IF taskDlg.isEdit
                     THEN Req(1, "updateTask", String(taskDlg.editId),
                              taskToPayload(taskForm), TRUE)
                     ELSE Req(1, "createTask", Null, taskToPayload(taskForm), TRUE) }
            /\ issued' = issued + 1
       ELSE UNCHANGED << flags, net, issued >>
    /\ last' = Did("saveTask", taskForm)
    /\ UNCHANGED << storage, route, hash, tasks, categories, filter, priorityF, sortBy,
                    searchQ, taskDlg, taskForm, catDlg, catForm, load, msgBox, server,
                    fixedVars >>

\* The plus button of the sidebar: the category dialog opens on an empty form.
OpenCatDlg ==
    /\ PageClickable
    /\ catDlg' = TRUE
    /\ catForm' = CatForm0
    /\ last' = NoCall
    /\ UNCHANGED << storage, route, hash, tasks, categories, filter, priorityF, sortBy,
                    searchQ, taskDlg, taskForm, flags, load, msgBox, net, issued, server,
                    fixedVars >>

\* The user types a name into the category form.
EditCatForm(name) ==
    /\ route = "tasks"
    /\ catDlg
    /\ catForm.name # name
    /\ catForm' = [catForm EXCEPT !.name = name]
    /\ last' = NoCall
    /\ UNCHANGED << storage, route, hash, tasks, categories, filter, priorityF, sortBy,
                    searchQ, taskDlg, taskForm, catDlg, flags, load, msgBox, net, issued,
                    server, fixedVars >>

\* The cancel button of the category dialog: catDlg.show = false
CloseCatDlg ==
    /\ route = "tasks"
    /\ catDlg
    /\ catDlg' = FALSE
    /\ last' = NoCall
    /\ UNCHANGED << storage, route, hash, tasks, categories, filter, priorityF, sortBy,
                    searchQ, taskDlg, taskForm, catForm, flags, load, msgBox, net, issued,
                    server, fixedVars >>

\* saveCatApi, up to its await (the button, or Enter in the name field)
SaveCatApi ==
    /\ route = "tasks"
    /\ catDlg
    /\ IF CatValid(catForm)
       THEN /\ issued < MaxRequests
            /\ flags' = [flags EXCEPT !.saving = TRUE]
            /\ net' = net \cup
                   { Req(1, "createCat", Null,
                         [name |-> Trim(catForm.name), color |-> catForm.color], TRUE) }
            /\ issued' = issued + 1
       ELSE UNCHANGED << flags, net, issued >>
    /\ last' = Did("saveCat", catForm)
    /\ UNCHANGED << storage, route, hash, tasks, categories, filter, priorityF, sortBy,
                    searchQ, taskDlg, taskForm, catDlg, catForm, load, msgBox, server,
                    fixedVars >>

\* deleteCategoryApi(id), up to its await
DeleteCategoryApi(cat) ==
    /\ PageClickable
    /\ issued < MaxRequests
    /\ net' = net \cup { Req(1, "deleteCat", cat.id, Null, TRUE) }
    /\ issued' = issued + 1
    /\ last' = NoCall
    /\ UNCHANGED << storage, route, hash, pageVars, msgBox, server, fixedVars >>

(***************************************************************************)
(* The network and the backend answering                                   *)
(***************************************************************************)
\* The backend carries the request out and answers.  A DELETE is answered
\* without a body (204) or with a JSON message (200): the API gives it no
\* response data.
ServerOk(r, bodiless) ==
    /\ r.resp = NoResp
    /\ SrvCan(r)
    /\ bodiless => r.op \in {"deleteTask", "deleteCat"}
    /\ net' = (net \ {r}) \cup
              {[r EXCEPT !.resp = IF bodiless THEN Http(204, NoBody)
                                  ELSE Http(200, Json(SrvData(r)))]}
    /\ server' = SrvEffect(r)
    /\ last' = NoCall
    /\ UNCHANGED << storage, route, hash, pageVars, msgBox, issued, fixedVars >>

\* What can come back for a request: the backend's answer when it carried the
\* request out, unless the connection breaks and fetch rejects; otherwise a
\* refusal of the token or the credentials (401) or a failure with a JSON error
\* message (500).
Arrivals(r) ==
    IF r.resp # NoResp THEN {r.resp, NetError}
    ELSE { Http(401, Json(Message("unauthorized"))), Http(500, Json(Message("error"))) }

(***************************************************************************)
(* The continuations: what runs when the await of request() returns        *)
(***************************************************************************)
\* The record of a call that returns: what was asked, what came back, what
\* request() made of it, and the state the continuation found.
Call(r, resp) ==
    [ id |-> r.id, op |-> r.op, arg |-> r.arg, live |-> r.live, resp |-> resp,
      result |-> RequestResult(resp),
      before |-> [tasks |-> tasks, categories |-> categories, filter |-> filter,
                  storage |-> storage, load |-> load, route |-> route] ]

\* The part of every continuation that request() itself does.
Returned(r, resp) ==
    /\ storage' = RequestStorage(resp)
    /\ hash' = RequestHash(resp)
    /\ net' = net \ {r}
    /\ last' = Call(r, resp)
    /\ UNCHANGED << route, msgBox, issued, server, fixedVars >>

\* A submit that stores the token and leaves the user name as it was.
AuthStorageTokenOnly(data) == [tf_token |-> data.token, tf_user |-> storage.tf_user]

\* localStorage.setItem('tf_token', data.token); setItem('tf_user', data.username)
AuthStorage(data) == [tf_token |-> data.token, tf_user |-> data.username]

\* LoginPage.submit and RegisterPage.submit after the await
ResolveAuth(r, resp) ==
    /\ r.op \in AuthOps
    /\ last' = Call(r, resp)
    /\ LET res == RequestResult(resp)
       IN  IF res.threw
           THEN /\ storage' = RequestStorage(resp)
                /\ hash' = RequestHash(resp)
                /\ net' = net \ {r}
                /\ UNCHANGED << route, pageVars, msgBox, issued >>
           ELSE /\ storage' = AuthStorage(res.data)
                /\ RouterPush("tasks", res.data.token, net \ {r})
                /\ msgBox' = BoxAfterPush("tasks", res.data.token)
    /\ UNCHANGED << server, fixedVars >>

\* Faulty variant: the tasks are installed as soon as they are in.
LoadTasksEarly(got) ==
    IF got.getTasks.t = "json" THEN NormalizeTasks(got.getTasks.v) ELSE tasks

\* loadData after Promise.all settles: the lists to install, once both are in.
LoadTasks(got) ==
    IF got.getTasks.t = "json" /\ got.getCats.t = "json"
    THEN NormalizeTasks(got.getTasks.v) ELSE tasks

LoadCategories(got) ==
    IF got.getTasks.t = "json" /\ got.getCats.t = "json"
    THEN NormalizeCats(got.getCats.v) ELSE categories

\* One of the two requests of loadData returns.
ResolveLoad(r, resp) ==
    /\ r.op \in LoadOps
    /\ Returned(r, resp)
    /\ LET res == RequestResult(resp)
       IN  IF ~r.live \/ load.state # "pending"
           THEN UNCHANGED pageVars
           ELSE IF res.threw
           THEN /\ load' = [Load0 EXCEPT !.state = "settled"]
                /\ flags' = [flags EXCEPT !.pageLoading = FALSE]
                /\ UNCHANGED << tasks, categories, filter, priorityF, sortBy, searchQ,
                                taskDlg, taskForm, catDlg, catForm >>
           ELSE LET got == [load EXCEPT ![r.op] = Json(res.data)]
                    all == got.getTasks.t = "json" /\ got.getCats.t = "json"
                IN  /\ tasks' = LoadTasks(got)
                    /\ categories' = LoadCategories(got)
                    /\ load' = IF all THEN [Load0 EXCEPT !.state = "settled"] ELSE got
                    /\ flags' = IF all THEN [flags EXCEPT !.pageLoading = FALSE] ELSE flags
                    /\ UNCHANGED << filter, priorityF, sortBy, searchQ,
                                    taskDlg, taskForm, catDlg, catForm >>

\* toggleTaskApi after the await
ToggleTasks(r, res) ==
    IF res.threw THEN tasks
    ELSE ReplaceAt(tasks, FindIndex(tasks, String(r.arg)), normalizeTask(res.data))

ResolveToggle(r, resp) ==
    /\ r.op = "toggle"
    /\ Returned(r, resp)
    /\ IF r.live
       THEN /\ tasks' = ToggleTasks(r, RequestResult(resp))
            /\ UNCHANGED << categories, filter, priorityF, sortBy, searchQ,
                            taskDlg, taskForm, catDlg, catForm, flags, load >>
       ELSE UNCHANGED pageVars

\* confirmDeleteTask after the await
DeleteTasks(r, res) ==
    IF res.threw THEN tasks ELSE SelectSeq(tasks, LAMBDA t : t.id # String(r.arg))

ResolveDeleteTask(r, resp) ==
    /\ r.op = "deleteTask"
    /\ Returned(r, resp)
    /\ IF r.live
       THEN /\ tasks' = DeleteTasks(r, RequestResult(resp))
            /\ UNCHANGED << categories, filter, priorityF, sortBy, searchQ,
                            taskDlg, taskForm, catDlg, catForm, flags, load >>
       ELSE UNCHANGED pageVars

\* saveTaskApi after the await: taskDlg.editId is read here, after the await.
SaveTasks(r, res) ==
    IF res.threw THEN tasks
    ELSE IF r.op = "updateTask"
    THEN ReplaceAt(tasks, FindIndex(tasks, taskDlg.editId), normalizeTask(res.data))
    ELSE << normalizeTask(res.data) >> \o tasks

ResolveSaveTask(r, resp) ==
    /\ r.op \in {"createTask", "updateTask"}
    /\ Returned(r, resp)
    /\ IF r.live
       THEN LET res == RequestResult(resp)
            IN  /\ tasks' = SaveTasks(r, res)
                /\ taskDlg' = IF res.threw THEN taskDlg ELSE [taskDlg EXCEPT !.show = FALSE]
                /\ flags' = [flags EXCEPT !.saving = FALSE]
                /\ UNCHANGED << categories, filter, priorityF, sortBy, searchQ,
                                taskForm, catDlg, catForm, load >>
       ELSE UNCHANGED pageVars

\* saveCatApi after the await
SaveCategories(r, res) ==
    IF res.threw THEN categories ELSE Append(categories, normalizeCat(res.data))

ResolveSaveCat(r, resp) ==
    /\ r.op = "createCat"
    /\ Returned(r, resp)
    /\ IF r.live
       THEN LET res == RequestResult(resp)
            IN  /\ categories' = SaveCategories(r, res)
                /\ catDlg' = IF res.threw THEN catDlg ELSE FALSE
                /\ flags' = [flags EXCEPT !.saving = FALSE]
                /\ UNCHANGED << tasks, filter, priorityF, sortBy, searchQ,
                                taskDlg, taskForm, catForm, load >>
       ELSE UNCHANGED pageVars

\* deleteCategoryApi after the await
DeleteCategories(r, res) ==
    IF res.threw THEN categories ELSE SelectSeq(categories, LAMBDA c : c.id # r.arg)

\* Faulty variant: the filter is left on the deleted category.
DeleteCategoryFilterKept(r, res) == filter

\* Faulty variant: the filter is reset whichever category was deleted.
DeleteCategoryFilterAlways(r, res) ==
    IF ~res.threw THEN Str("all") ELSE filter

DeleteCategoryFilter(r, res) ==
    IF ~res.threw /\ filter = r.arg THEN Str("all") ELSE filter

ResolveDeleteCat(r, resp) ==
    /\ r.op = "deleteCat"
    /\ Returned(r, resp)
    /\ IF r.live
       THEN LET res == RequestResult(resp)
            IN  /\ categories' = DeleteCategories(r, res)
                /\ filter' = DeleteCategoryFilter(r, res)
                /\ UNCHANGED << tasks, priorityF, sortBy, searchQ,
                                taskDlg, taskForm, catDlg, catForm, flags, load >>
       ELSE UNCHANGED pageVars

(***************************************************************************)
(* The application                                                         *)
(***************************************************************************)
Session0 == [tf_token |-> Str("tok"), tf_user |-> GoodName]

\* The application starts on the login view, with or without a session kept in
\* localStorage by an earlier visit.
Init ==
    /\ storage \in {NoSession, Session0}
    /\ route = "login"
    /\ hash = "login"
    /\ tasks = << >>
    /\ categories = << >>
    /\ filter = Str("all")
    /\ priorityF = Str("all")
    /\ sortBy = Str("created_desc")
    /\ searchQ = EmptyStr
    /\ taskDlg = TaskDlg0
    /\ taskForm = TaskForm0
    /\ catDlg = FALSE
    /\ catForm = CatForm0
    /\ flags = Flags0
    /\ load = Load0
    /\ msgBox = NoBox
    /\ net = {}
    /\ issued = 0
    /\ server = Server0
    /\ last = NoCall
    /\ now = 36
    /\ tz = 0
    /\ engine = "run-binary"
    /\ conv = << >>

Next ==
    \/ \E to \in {"login", "register", "tasks"} : Navigate(to)
    \/ HashChange
    \/ \E form \in LoginForms : LoginSubmit(form)
    \/ \E form \in RegisterForms : RegisterSubmit(form)
    \/ \E f \in SidebarChoices \cup {categories[i].id : i \in 1..Len(categories)} : SetFilter(f)
    \/ \E i \in 1..Len(visibleTasks) : ToggleTaskApi(visibleTasks[i])
    \/ \E i \in 1..Len(visibleTasks) : ConfirmDeleteTask(visibleTasks[i])
    \/ \E i \in 1..Len(visibleTasks) : OpenTaskDlgEdit(visibleTasks[i])
    \/ Logout
    \/ MsgBoxCancel
    \/ MsgBoxConfirmDelete
    \/ MsgBoxConfirmLogout
    \/ OpenTaskDlgNew
    \/ \E title \in FormTitles : EditTaskForm(title)
    \/ CloseTaskDlg
    \/ SaveTaskApi
    \/ OpenCatDlg
    \/ \E name \in CatNames : EditCatForm(name)
    \/ CloseCatDlg
    \/ SaveCatApi
    \/ \E i \in 1..Len(categories) : DeleteCategoryApi(categories[i])
    \/ \E r \in net, bodiless \in BOOLEAN : ServerOk(r, bodiless)
    \/ \E r \in net : \E resp \in Arrivals(r) : ResolveAuth(r, resp)
    \/ \E r \in net : \E resp \in Arrivals(r) : ResolveLoad(r, resp)
    \/ \E r \in net : \E resp \in Arrivals(r) : ResolveToggle(r, resp)
    \/ \E r \in net : \E resp \in Arrivals(r) : ResolveDeleteTask(r, resp)
    \/ \E r \in net : \E resp \in Arrivals(r) : ResolveSaveTask(r, resp)
    \/ \E r \in net : \E resp \in Arrivals(r) : ResolveSaveCat(r, resp)
    \/ \E r \in net : \E resp \in Arrivals(r) : ResolveDeleteCat(r, resp)

Spec == Init /\ [][Next]_vars

(***************************************************************************)
(* The derived view on its own: any short task list the page can hold,     *)
(* under every choice of the toolbar and the sidebar.                      *)
(***************************************************************************)
\* Tasks a list may hold.
MaxViewLen == 3

WireTask3 ==
    [ id |-> Num(3), title |-> Text(<< "A", "b" >>), desc |-> Null, category_id |-> Num(1),
      priority |-> Str("low"), status |-> Str("pending"), due_date |-> Null,
      created_at |-> Stamp(3) ]

WireTask4 ==
    [ id |-> Num(4), title |-> Text(<< "B" >>), desc |-> Null, category_id |-> Null,
      priority |-> Str("high"), status |-> Str("pending"), due_date |-> Date(2),
      created_at |-> Stamp(4) ]

WireTask5 ==
    [ id |-> Num(5), title |-> Text(<< "c" >>), desc |-> Text(<< "a", "B" >>),
      category_id |-> Null, priority |-> Str("medium"), status |-> Str("done"),
      due_date |-> Date(3), created_at |-> Stamp(5) ]

WireTask6 ==
    [ id |-> Num(6), title |-> Text(<< "b" >>), desc |-> Null, category_id |-> Null,
      priority |-> Str("high"), status |-> Str("pending"), due_date |-> Null,
      created_at |-> Stamp(6) ]

ViewPool ==
    { normalizeTask(w) :
        w \in {WireTask1, WireTask2, WireTask3, WireTask4, WireTask5, WireTask6} }

\* The lists of up to MaxViewLen different tasks, in every order.
ViewLists ==
    UNION { { list \in [1..n -> ViewPool] :
                \A i, j \in 1..n : i # j => list[i] # list[j] } : n \in 0..MaxViewLen }

PriorityChoices == {Str("all"), Str("high"), Str("medium"), Str("low")}

SortChoices ==
    {Str("created_desc"), Str("created_asc"), Str("due_asc"), Str("due_desc"),
     Str("priority")}

SearchStrings == {EmptyStr, Text(<< "a" >>), Text(<< "B" >>)}

Engines == {"run-binary", "insertion"}

\* The tasks page loaded and at rest: nothing open, nothing in flight.
PageAtRest ==
    /\ storage = Session0
    /\ route = "tasks"
    /\ hash = "tasks"
    /\ taskDlg = TaskDlg0
    /\ taskForm = TaskForm0
    /\ catDlg = FALSE
    /\ catForm = CatForm0
    /\ flags = Flags0
    /\ load = [Load0 EXCEPT !.state = "settled"]
    /\ msgBox = NoBox
    /\ net = {}
    /\ issued = 0
    /\ server = Server0
    /\ last = NoCall
    /\ now = 36
    /\ tz = 0

\* The priority buttons of the toolbar: @click="priorityF=p.val"
SetPriorityF(p) ==
    /\ PageClickable
    /\ priorityF' = p
    /\ last' = NoCall
    /\ UNCHANGED << storage, route, hash, tasks, categories, filter, sortBy, searchQ,
                    taskDlg, taskForm, catDlg, catForm, flags, load, msgBox, net, issued,
                    server, fixedVars >>

\* The sort select of the toolbar: v-model="sortBy"
SetSortBy(s) ==
    /\ PageClickable
    /\ sortBy' = s
    /\ last' = NoCall
    /\ UNCHANGED << storage, route, hash, tasks, categories, filter, priorityF, searchQ,
                    taskDlg, taskForm, catDlg, catForm, flags, load, msgBox, net, issued,
                    server, fixedVars >>

\* The search box of the header: v-model="searchQ"
SetSearchQ(q) ==
    /\ PageClickable
    /\ searchQ' = q
    /\ last' = NoCall
    /\ UNCHANGED << storage, route, hash, tasks, categories, filter, priorityF, sortBy,
                    taskDlg, taskForm, catDlg, catForm, flags, load, msgBox, net, issued,
                    server, fixedVars >>

InitView ==
    /\ PageAtRest
    /\ tasks \in ViewLists
    /\ categories = NormalizeCats(<< WireCat1 >>)
    /\ filter = Str("all")
    /\ priorityF = Str("all")
    /\ sortBy = Str("created_desc")
    /\ searchQ = EmptyStr
    /\ engine \in Engines
    /\ conv = << >>

NextView ==
    \/ \E f \in BuiltinFilters \cup {categories[i].id : i \in 1..Len(categories)} : SetFilter(f)
    \/ \E p \in PriorityChoices : SetPriorityF(p)
    \/ \E s \in SortChoices : SetSortBy(s)
    \/ \E q \in SearchStrings : SetSearchQ(q)

SpecView == InitView /\ [][NextView]_vars

(***************************************************************************)
(* The two conversions on their own: a wire task is normalised, and the    *)
(* client task is mapped back to a payload.                                *)
(***************************************************************************)
\* Characters a wire title may have.
MaxTitleLen == 2

WireTitles == UNION { [1..n -> {" ", "a"}] : n \in 1..MaxTitleLen }

WireTasks ==
    { [ id |-> Num(1), title |-> Text(cs), desc |-> Null, category_id |-> c,
        priority |-> p, status |-> st, due_date |-> d, created_at |-> Stamp(1) ] :
        cs \in WireTitles, c \in {Null, Num(1)},
        p \in {Null, EmptyStr, Str("high"), Str("medium")},
        st \in {Null, EmptyStr, Str("pending"), Str("done")},
        d \in {Null, EmptyStr, Date(1)} }

\* normalizeTask(w)
Normalize ==
    /\ conv.stage = "wire"
    /\ conv' = [stage |-> "client", wire |-> conv.wire, client |-> normalizeTask(conv.wire)]
    /\ UNCHANGED << storage, route, hash, pageVars, msgBox, net, issued, server, last,
                    now, tz, engine >>

\* taskToPayload(c)
ToPayload ==
    /\ conv.stage = "client"
    /\ conv' = [stage |-> "payload", wire |-> conv.wire, client |-> conv.client,
                payload |-> taskToPayload(conv.client)]
    /\ UNCHANGED << storage, route, hash, pageVars, msgBox, net, issued, server, last,
                    now, tz, engine >>

\* normalizeTask(c): the client task is normalised once more
Renormalize ==
    /\ conv.stage = "client"
    /\ conv' = [stage |-> "again", wire |-> conv.wire, client |-> conv.client,
                again |-> normalizeTask(conv.client)]
    /\ UNCHANGED << storage, route, hash, pageVars, msgBox, net, issued, server, last,
                    now, tz, engine >>

InitConv ==
    /\ PageAtRest
    /\ tasks = << >>
    /\ categories = << >>
    /\ filter = Str("all")
    /\ priorityF = Str("all")
    /\ sortBy = Str("created_desc")
    /\ searchQ = EmptyStr
    /\ engine = "run-binary"
    /\ conv \in {[stage |-> "wire", wire |-> w] : w \in WireTasks}

NextConv == Normalize \/ ToPayload \/ Renormalize

SpecConv == InitConv /\ [][NextConv]_vars

(***************************************************************************)
(* The date helpers under the clock: the page at rest, in any time zone,   *)
(* while the hours pass                                                    *)
(***************************************************************************)
\* Hours of the clock that are followed: three days from 00:00 UTC of day 1.
MaxClock == 72

\* The offsets of local time from UTC, in whole hours.
TimeZones == -12..14

\* Tasks due on each of the days around the clock, and one with no due date.
ClockList ==
    NormalizeTasks(<< WireTask1, WireTask2, WireTask4,
                      [WireTask4 EXCEPT !.id = Num(7), !.due_date = Date(3)],
                      [WireTask4 EXCEPT !.id = Num(8), !.due_date = Date(4)] >>)

\* An hour passes.
Tick ==
    /\ now < MaxClock
    /\ now' = now + 1
    /\ last' = NoCall
    /\ UNCHANGED << storage, route, hash, pageVars, msgBox, net, issued, server, tz,
                    engine, conv >>

InitClock ==
    /\ storage = Session0
    /\ route = "tasks"
    /\ hash = "tasks"
    /\ tasks = ClockList
    /\ categories = NormalizeCats(<< WireCat1 >>)
    /\ filter = Str("all")
    /\ priorityF = Str("all")
    /\ sortBy = Str("created_desc")
    /\ searchQ = EmptyStr
    /\ taskDlg = TaskDlg0
    /\ taskForm = TaskForm0
    /\ catDlg = FALSE
    /\ catForm = CatForm0
    /\ flags = Flags0
    /\ load = [Load0 EXCEPT !.state = "settled"]
    /\ msgBox = NoBox
    /\ net = {}
    /\ issued = 0
    /\ server = Server0
    /\ last = NoCall
    /\ now = 0
    /\ tz \in TimeZones
    /\ engine = "run-binary"
    /\ conv = << >>

NextClock ==
    \/ Tick
    \/ \E f \in {Str("all"), Str("today")} : SetFilter(f)

SpecClock == InitClock /\ [][NextClock]_vars

(***************************************************************************)
(* The sidebar of a loaded page: filters selected, categories created and  *)
(* deleted, with every request of the bound spent on categories            *)
(***************************************************************************)
InitCats ==
    /\ PageAtRest
    /\ tasks = NormalizeTasks(Server0.tasks)
    /\ categories = NormalizeCats(Server0.cats)
    /\ filter = Str("all")
    /\ priorityF = Str("all")
    /\ sortBy = Str("created_desc")
    /\ searchQ = EmptyStr
    /\ engine = "run-binary"
    /\ conv = << >>

NextCats ==
    \/ \E f \in SidebarChoices \cup {categories[i].id : i \in 1..Len(categories)} : SetFilter(f)
    \/ OpenCatDlg
    \/ \E name \in CatNames : EditCatForm(name)
    \/ CloseCatDlg
    \/ SaveCatApi
    \/ \E i \in 1..Len(categories) : DeleteCategoryApi(categories[i])
    \/ \E r \in net, bodiless \in BOOLEAN : ServerOk(r, bodiless)
    \/ \E r \in net : \E resp \in Arrivals(r) : ResolveSaveCat(r, resp)
    \/ \E r \in net : \E resp \in Arrivals(r) : ResolveDeleteCat(r, resp)

SpecCats == InitCats /\ [][NextCats]_vars

(***************************************************************************)
(* Properties                                                              *)
(***************************************************************************)
\* A call of request() returned in the step just taken, to a continuation of a
\* tasks page that is still there.
ReturnedTo(ops) == last.id # 0 /\ last.live /\ last.op \in ops

Without(list, id) == SelectSeq(list, LAMBDA x : x.id # id)

\* null and '' count as the same value.
Blank(x) == x = Null \/ x = EmptyStr

SameModNull(a, b) == a = b \/ (Blank(a) /\ Blank(b))

\* C1: whatever the call and whoever made it, a 401 response removes the stored
\* token and the stored username, forces the hash to the login view and makes
\* the call throw the expired-session error instead of returning data.
C1_Unauthorized ==
    (last.id # 0 /\ last.resp.kind = "http" /\ last.resp.status = 401) =>
        /\ storage.tf_token = Null
        /\ storage.tf_user = Null
        /\ hash = "login"
        /\ last.result.threw
        /\ last.result.error = "expired"

\* A toggle sent with a session in place was answered 401: the session is gone
\* while the tasks page is still shown.
C1_Witness ==
    /\ last.id # 0
    /\ last.op = "toggle"
    /\ last.resp.kind = "http" /\ last.resp.status = 401
    /\ last.before.storage = Session0
    /\ route = "tasks"

\* C2: when the request of a task, category or load operation fails, the task
\* list, the category list and the filter are as they were; and a response of
\* the initial load changes the lists only when it completes the load, and then
\* installs both lists from the two responses.
C2_FailureChangesNothing ==
    /\ (ReturnedTo(TaskOps \cup CatOps \cup LoadOps) /\ last.result.threw) =>
           /\ tasks = last.before.tasks
           /\ categories = last.before.categories
           /\ filter = last.before.filter
    /\ (ReturnedTo(LoadOps) /\ ~last.result.threw) =>
           LET other == IF last.op = "getTasks" THEN "getCats" ELSE "getTasks"
               got   == [last.before.load EXCEPT ![last.op] = Json(last.result.data)]
           IN  /\ filter = last.before.filter
               /\ IF last.before.load.state = "pending" /\ got[other].t = "json"
                  THEN /\ tasks = NormalizeTasks(got.getTasks.v)
                       /\ categories = NormalizeCats(got.getCats.v)
                  ELSE /\ tasks = last.before.tasks
                       /\ categories = last.before.categories

\* The category request of the load failed after the task request had returned
\* its list: nothing of it was installed.
C2_Witness ==
    /\ ReturnedTo({"getCats"})
    /\ last.result.threw
    /\ last.before.load.getTasks.t = "json"
    /\ last.before.load.getTasks.v # << >>
    /\ tasks = << >>

\* C3: no two tasks of the in-memory list have the same id.
C3_UniqueIds == \A i, j \in 1..Len(tasks) : i # j => tasks[i].id # tasks[j].id

\* C4: when an update or a toggle returns with success, the list is the list as
\* it was with the task of the targeted id replaced by the normalised task of
\* the response, every other task as it was.
C4_UpdateReplacesTarget ==
    (ReturnedTo({"updateTask", "toggle"}) /\ ~last.result.threw) =>
        tasks = [ i \in 1..Len(last.before.tasks) |->
                    IF last.before.tasks[i].id = String(last.arg)
                    THEN normalizeTask(last.result.data)
                    ELSE last.before.tasks[i] ]

\* C5: when the DELETE of a task is answered with a success status, the task of
\* that id is gone from the list and every other task is kept; and a DELETE not
\* answered with success removes nothing.
C5_DeleteRemovesTask ==
    ReturnedTo({"deleteTask"}) =>
        IF last.resp.kind = "http" /\ ResOk(last.resp)
        THEN tasks = Without(last.before.tasks, String(last.arg))
        ELSE tasks = last.before.tasks

C7_Counts ==
    /\ pendingCount + doneCount = totalCount
    /\ overdueCount <= pendingCount

\* A task past its due date is pending, next to a task whose status the server
\* left out.
C7_Witness ==
    /\ overdueCount = 1
    /\ pendingCount = 2
    /\ totalCount = 2

\* The three predicates of the view, as the claim states them.
InView(t) ==
    \/ filter = Str("all")
    \/ filter = Str("today") /\ t.due = today
    \/ filter = Str("pending") /\ t.status = Str("pending")
    \/ filter = Str("done") /\ t.status = Str("done")
    \/ filter \notin BuiltinFilters /\ t.category = filter

HasPriority(t) == priorityF = Str("all") \/ t.priority = priorityF

Found(t) ==
    \/ searchQ = EmptyStr
    \/ \E field \in {t.title, t.desc} : Includes(ToLowerCase(field), ToLowerCase(searchQ))

\* C8: visibleTasks holds exactly the tasks of the list that are in the view,
\* have the priority and are found by the search: each of them once, and
\* nothing else.
C8_VisibleExact ==
    LET keep == {i \in 1..Len(tasks) :
                    InView(tasks[i]) /\ HasPriority(tasks[i]) /\ Found(tasks[i])}
    IN  /\ Len(visibleTasks) = Cardinality(keep)
        /\ \A i \in keep : \E k \in 1..Len(visibleTasks) : visibleTasks[k] = tasks[i]
        /\ \A k \in 1..Len(visibleTasks) : \E i \in keep : visibleTasks[k] = tasks[i]
        /\ \A k, m \in 1..Len(visibleTasks) : k # m => visibleTasks[k] # visibleTasks[m]

\* All three filters are on, the search differs in case from what it finds, and
\* they keep one task of three.
C8_Witness ==
    /\ Len(tasks) = 3
    /\ filter = Str("pending")
    /\ priorityF = Str("high")
    /\ searchQ = Text(<< "B" >>)
    /\ Len(visibleTasks) = 1
    /\ visibleTasks[1].title = Text(<< "b" >>)

\* high < medium < low
Rank(p) == IF p = Str("high") THEN 1 ELSE IF p = Str("medium") THEN 2 ELSE 3

\* C9: the visible list is in the order of its sort key, and under due_asc and
\* due_desc every task without a due date comes after every task with one.
C9_Ordered ==
    \A k, m \in 1..Len(visibleTasks) :
        k < m =>
            LET a == visibleTasks[k]
                b == visibleTasks[m]
            IN  CASE sortBy = Str("created_desc") -> a.createdAt.v >= b.createdAt.v
                  [] sortBy = Str("created_asc")  -> a.createdAt.v <= b.createdAt.v
                  [] sortBy = Str("due_asc") ->
                        /\ a.due = EmptyStr => b.due = EmptyStr
                        /\ (a.due # EmptyStr /\ b.due # EmptyStr) => a.due.v <= b.due.v
                  [] sortBy = Str("due_desc") ->
                        /\ a.due = EmptyStr => b.due = EmptyStr
                        /\ (a.due # EmptyStr /\ b.due # EmptyStr) => a.due.v >= b.due.v
                  [] sortBy = Str("priority") -> Rank(a.priority) <= Rank(b.priority)

\* Latest due date first, with two tasks without a due date, one of them at the
\* head of the list as it is held.
C9_Witness ==
    /\ sortBy = Str("due_desc")
    /\ Len(tasks) = 3
    /\ tasks[1].due = EmptyStr
    /\ tasks[2].due # EmptyStr
    /\ tasks[3].due = EmptyStr
    /\ Len(visibleTasks) = 3
    /\ visibleTasks[1] = tasks[2]

\* C10 as stated: the payload of the normalised wire task has the title, the
\* priority, the status and the due date of the wire task, null and '' being
\* the same.
C10_RoundTrip ==
    conv.stage = "payload" =>
        /\ SameModNull(conv.payload.title, conv.wire.title)
        /\ SameModNull(conv.payload.priority, conv.wire.priority)
        /\ SameModNull(conv.payload.status, conv.wire.status)
        /\ SameModNull(conv.payload.due_date, conv.wire.due_date)

\* C10 as the conversions have it: the title comes back trimmed, a missing
\* priority or status comes back as its default, the due date comes back as it
\* was, null and '' being the same.
C10_RoundTripDefaults ==
    conv.stage = "payload" =>
        /\ conv.payload.title = Trim(conv.wire.title)
        /\ conv.payload.priority =
               IF Blank(conv.wire.priority) THEN Str("medium") ELSE conv.wire.priority
        /\ conv.payload.status =
               IF Blank(conv.wire.status) THEN Str("pending") ELSE conv.wire.status
        /\ SameModNull(conv.payload.due_date, conv.wire.due_date)

\* A wire task with a padded title, no priority and '' for its due date has made
\* the round trip.
C10_Witness ==
    /\ conv.stage = "payload"
    /\ conv.wire.title = Text(<< " ", "a" >>)
    /\ conv.wire.priority = Null
    /\ conv.wire.due_date = EmptyStr
    /\ conv.payload.due_date = Null
    /\ conv.payload.title = Text(<< "a" >>)

\* C11: normalising a normalised task gives the same task, in every field.
C11_Idempotent ==
    conv.stage = "again" => conv.again = conv.client

\* ---------------------------------------------------------------------------
\* The route guard

\* The step just taken was a navigation resolved by the router.
Navigated == last.id = 0 /\ last # NoCall /\ last.did = "navigate"

\* C12: a navigation to the task view resolved while no token is stored ends on the
\* login view, a navigation to the login or the register view ends there, and no
\* step enters the task view unless a token is stored when it does.
C12_RouteGuard ==
    /\ Navigated =>
          /\ (last.input = "tasks" /\ ~Truthy(storage.tf_token)) => route = "login"
          /\ (last.input \in {"login", "register"}) => route = last.input
    /\ (last # NoCall /\ route = "tasks" /\ last.before.route # "tasks") =>
          Truthy(storage.tf_token)

\* A navigation from the register view to the task view, with no token stored, has
\* ended on the login view.
C12_Witness ==
    /\ Navigated
    /\ last.input = "tasks"
    /\ last.before.route = "register"
    /\ ~Truthy(storage.tf_token)
    /\ route = "login"

\* ---------------------------------------------------------------------------
\* Sessions

\* The step just taken was the return of a login or registration request.
AuthReturned == last.id # 0 /\ last.op \in AuthOps

\* C13: when the request of a login or registration succeeds, the returned token and
\* user name are both stored and the task view is shown; when it fails, nothing is
\* stored (a 401 clears the session) and the view stays. A session appears only in
\* such a success, and goes only with a 401 or a logout.
C13_AuthOutcome ==
    /\ AuthReturned =>
          IF ~last.result.threw
          THEN /\ storage.tf_token = last.result.data.token
               /\ storage.tf_user = last.result.data.username
               /\ route = "tasks"
          ELSE /\ storage = (IF last.result.error = "expired" THEN NoSession
                             ELSE last.before.storage)
               /\ route = last.before.route
    /\ (last # NoCall /\ Truthy(storage.tf_token)
          /\ ~Truthy(last.before.storage.tf_token)) =>
          (AuthReturned /\ ~last.result.threw)
    /\ (last # NoCall /\ ~Truthy(storage.tf_token)
          /\ Truthy(last.before.storage.tf_token)) =>
          (last.id # 0 /\ last.result.threw /\ last.result.error = "expired")

\* A registration has succeeded where no session was stored: the session is there
\* and the task view is shown.
C13_Witness ==
    /\ AuthReturned
    /\ last.op = "register"
    /\ ~last.result.threw
    /\ last.before.storage = NoSession
    /\ last.before.route = "register"
    /\ storage.tf_user = GoodName
    /\ route = "tasks"

\* ---------------------------------------------------------------------------
\* Rejected submissions and declined confirmations

\* The step just taken was the submission of a form that breaks a rule of its
\* form (a required field empty, a field too short, a confirmation that differs),
\* or the user declining a confirmation.
Rejected ==
    /\ last.id = 0
    /\ last # NoCall
    /\ \/ /\ last.did = "login"
          /\ (last.input.username = EmptyStr \/ last.input.password = EmptyStr)
       \/ /\ last.did = "register"
          /\ \/ Len(last.input.username.v) < 2
             \/ Len(last.input.password.v) < 6
             \/ last.input.confirm # last.input.password
       \/ /\ last.did = "saveTask"
          /\ last.input.title = EmptyStr
       \/ /\ last.did = "saveCat"
          /\ last.input.name = EmptyStr
       \/ /\ last.did = "decline"
          /\ last.input.kind \in {"deleteTask", "logout"}

\* C14: a form submission that fails validation, and a declined confirmation of a
\* task delete or a logout, sends no request and leaves the task list, the category
\* list and the stored session as they were.
C14_RejectedIsNoOp ==
    Rejected =>
        /\ issued = last.before.issued
        /\ tasks = last.before.tasks
        /\ categories = last.before.categories
        /\ storage = last.before.storage

\* The task form was submitted with an empty title while the server's tasks were on
\* the page and a session was stored.
C14_Witness ==
    /\ Rejected
    /\ last.did = "saveTask"
    /\ taskDlg.show
    /\ tasks # << >>
    /\ Truthy(storage.tf_token)

\* ---------------------------------------------------------------------------
\* The date helpers and local time

\* The calendar day of the clock where the user is.
LocalDate == Date(((now + tz) \div 24) + 1)

\* C15: today() is the local calendar date at every instant and in every time zone:
\* a task is in the today view, and counted as due today, exactly when its due date
\* is the local date, and it is overdue exactly when its due date is before it.
C15_LocalToday ==
    /\ today = LocalDate
    /\ \A i \in 1..Len(tasks) :
          /\ isToday(tasks[i].due) <=> tasks[i].due = LocalDate
          /\ isOverdue(tasks[i].due) <=>
                (tasks[i].due.t = "date" /\ tasks[i].due.v < LocalDate.v)
    /\ filter = Str("today") =>
          \A i \in 1..Len(tasks) :
              (\E j \in 1..Len(visibleTasks) : visibleTasks[j] = tasks[i])
                  <=> tasks[i].due = LocalDate

\* ---------------------------------------------------------------------------
\* The filter and the category list

\* C16: the filter is always one of the four views or the id of a category that is
\* in the category list, however selections of a filter, creations of a category
\* and the responses of category deletes interleave.
C16_FilterInList ==
    filter \in BuiltinFilters \cup {categories[i].id : i \in 1..Len(categories)}

\* The filter is on a category that was created on this page and that the server
\* has already deleted, while the response of that delete is on its way to the page.
C16_Witness ==
    /\ route = "tasks"
    /\ filter \notin BuiltinFilters
    /\ filter \notin {NormalizeCats(Server0.cats)[i].id : i \in 1..Len(Server0.cats)}
    /\ \E r \in net :
          /\ r.op = "deleteCat"
          /\ r.live
          /\ r.arg = filter
          /\ r.resp # NoResp

\* ---------------------------------------------------------------------------
\* Created tasks and the initial load

\* The ids of the tasks the server had when the application started: any other task
\* on the page was created since.
ServedIds == {normalizeTask(Server0.tasks[i]).id : i \in 1..Len(Server0.tasks)}

\* C17: a created task that is in the list stays in it when a request returns,
\* unless what returns is a successful delete of its id (no other step assigns the
\* list of a page that stays); so the response of the initial load arriving after a
\* create does not drop the created task.
C17_CreatedStays ==
    (last.id # 0 /\ route = "tasks" /\ last.before.route = "tasks") =>
        \A i \in 1..Len(last.before.tasks) :
            LET t == last.before.tasks[i]
            IN  t.id \notin ServedIds =>
                    \/ \E j \in 1..Len(tasks) : tasks[j].id = t.id
                    \/ /\ last.op = "deleteTask"
                       /\ ~last.result.threw
                       /\ String(last.arg) = t.id


====
